---------------------------- MODULE Spec2Model ----------------------------
(* A model of the dashboard system: the data cleaner (utils/data_cleaner.py) *)
(* as a step machine over small tables, and the per-session chart list of   *)
(* the configuration page (pages/dashboard_config.py, session_manager.py).  *)
(*                                                                          *)
(* Tables.  A table is [columns, dtypes, rows]: the column labels (each a   *)
(* sequence of one-character strings), the column dtypes, and the rows,     *)
(* each a sequence of cells.  A cell is [na, x2, s]: na is a missing value  *)
(* (NaN / NaT / None), x2 is TWICE the numeric value (so that the median of *)
(* two integers is exact), s is the text of a text cell.                    *)
EXTENDS Integers, Sequences, FiniteSets, TLC

VARIABLES
  df,            \* the caller's table object (argument of clean_data)
  cleaned_df,    \* clean_data's local cleaned_df
  same_object,   \* TRUE while cleaned_df is the very object the caller holds
  cfg,           \* the keyword arguments of clean_data
  pc,            \* position inside clean_data
  entry,         \* the caller's table as it was when clean_data was called
  before,        \* the table that entered the step that ran last
  steps,         \* names of the helper methods called so far, in order
  outl,          \* _handle_outliers' loop: columns still to check, fences used
  session_state, \* st.session_state of the one browser session
  page,          \* the page whose script runs next
  form,          \* values of the widgets of chart_form as last submitted
  outcome,       \* what the last script run was asked to do and how it ended
  colors,        \* the sidebar's color widgets, and what the user last chose there
  rendered,      \* the charts and the document the last script run built
  srv            \* serve_dashboard_live: the ports, the loop, the server, the cwd

cleanerVars == <<df, cleaned_df, same_object, cfg, pc, entry, before, steps, outl>>
sessionVars == <<session_state, page, form, outcome>>
viewVars == <<colors, rendered>>
vars == <<df, cleaned_df, same_object, cfg, pc, entry, before, steps, outl,
          session_state, page, form, outcome, colors, rendered, srv>>

-----------------------------------------------------------------------------
(* Bounds of the model. *)
MaxRows == 2          \* rows of an input table of the pipeline runs
MaxEdgeRows == 2      \* rows of the integer column of the downcast runs
MaxOutlierRows == 4   \* rows of an input table of the outlier runs
MaxNameLen == 3       \* characters of a column label of the label runs
MaxNameCols == 1      \* columns of a table of the label runs
MaxCharts == 2        \* charts a session's list can hold in the model

-----------------------------------------------------------------------------
(* Cells and tables. *)
NaN == [na |-> TRUE, x2 |-> 0, s |-> ""]
Num(v) == [na |-> FALSE, x2 |-> 2 * v, s |-> ""]
Str(w) == [na |-> FALSE, x2 |-> 0, s |-> w]

NoTable == [columns |-> <<>>, dtypes |-> <<>>, rows |-> <<>>]

Range(f) == {f[i] : i \in DOMAIN f}
NRows(t) == Len(t.rows)
NCols(t) == Len(t.columns)
ColumnOf(t, j) == [i \in 1..NRows(t) |-> t.rows[i][j]]
\* df[col] selects every column labelled col: a Series only if the label is unique
LabelCount(t, name) == Cardinality({j \in 1..NCols(t) : t.columns[j] = name})
UniqueLabel(t, j) == LabelCount(t, t.columns[j]) = 1
\* variant: only a table without columns counts as empty
IsEmptyNoColumns(t) == NCols(t) = 0
\* DataFrame.empty: any axis of length 0
IsEmpty(t) == NRows(t) = 0 \/ NCols(t) = 0

RECURSIVE SelectRows(_, _, _)
\* boolean-mask row selection df[keep], from row i on
SelectRows(rows, keep, i) ==
  IF i > Len(rows) THEN <<>>
  ELSE (IF keep[i] THEN <<rows[i]>> ELSE <<>>) \o SelectRows(rows, keep, i + 1)

Sorted(xs) == SortSeq(xs, LAMBDA a, b : a < b)
\* the non-missing numeric values of a column, doubled
Values2(col) == [i \in 1..Len(SelectSeq(col, LAMBDA c : ~c.na)) |->
                   SelectSeq(col, LAMBDA c : ~c.na)[i].x2]
RECURSIVE SumSeq(_)
SumSeq(xs) == IF xs = <<>> THEN 0 ELSE Head(xs) + SumSeq(Tail(xs))
Abs(x) == IF x < 0 THEN -x ELSE x

-----------------------------------------------------------------------------
(* Python references: df.copy() makes a new object, an assignment to        *)
(* df.columns or df[col] writes into the object it is applied to.           *)
\* variant: no copy is taken, the working table stays the caller's object
FrameCopyShared(alias) == alias
FrameCopy(alias) == FALSE
\* what the caller's object holds after an in-place write of t into cleaned_df
WriteThrough(alias, caller, t) == IF alias THEN t ELSE caller

-----------------------------------------------------------------------------
(* _clean_column_names: col.strip().lower().replace(' ', '_').replace('-', '_') *)
NameChars == {"A", "a", " ", "-"}
RECURSIVE LStrip(_)
LStrip(str) == IF str # <<>> /\ Head(str) = " " THEN LStrip(Tail(str)) ELSE str
RECURSIVE RStrip(_)
RStrip(str) ==
  IF str # <<>> /\ str[Len(str)] = " " THEN RStrip(SubSeq(str, 1, Len(str) - 1)) ELSE str
Strip(str) == RStrip(LStrip(str))
Lower(str) == [i \in 1..Len(str) |-> IF str[i] = "A" THEN "a" ELSE str[i]]
Replace(str, old, new) == [i \in 1..Len(str) |-> IF str[i] = old THEN new ELSE str[i]]
\* variant: the hyphen is replaced by a space, not by an underscore
NormalizeNameHyphenToSpace(col) == Replace(Replace(Lower(Strip(col)), " ", "_"), "-", " ")
NormalizeName(col) == Replace(Replace(Lower(Strip(col)), " ", "_"), "-", "_")
CleanColumnNames(t) ==
  [t EXCEPT !.columns = [j \in 1..NCols(t) |-> NormalizeName(t.columns[j])]]

-----------------------------------------------------------------------------
(* _handle_duplicates: df.drop_duplicates() keeps the first row of every    *)
(* group of rows equal in all columns (missing values compare equal).       *)
\* variant: drop_duplicates(keep=False), every row that has a twin is dropped
FirstOfGroupKeepNone(rows) ==
  [i \in 1..Len(rows) |-> \A j \in 1..Len(rows) : j # i => rows[j] # rows[i]]
FirstOfGroup(rows) == [i \in 1..Len(rows) |-> \A j \in 1..(i - 1) : rows[j] # rows[i]]
HandleDuplicates(t) == [t EXCEPT !.rows = SelectRows(t.rows, FirstOfGroup(t.rows), 1)]

-----------------------------------------------------------------------------
(* _handle_missing_values *)
\* Python's order of the text values of the model ('U' < 'x' < 'y')
TextOrder == <<"Unknown", "x", "y">>
TextRank(w) == CHOOSE r \in 1..Len(TextOrder) : TextOrder[r] = w
MissingCount(t, j) == Cardinality({i \in 1..NRows(t) : t.rows[i][j].na})
\* Series.median(): of the non-missing values; NaN when there is none
FillMedian(col) ==
  LET vals == Sorted(Values2(col))
      n == Len(vals)
      med2 == IF n % 2 = 1 THEN vals[(n + 1) \div 2]
              ELSE (vals[n \div 2] + vals[n \div 2 + 1]) \div 2
  IN IF n = 0 THEN col
     ELSE [i \in 1..Len(col) |->
             IF col[i].na THEN [na |-> FALSE, x2 |-> med2, s |-> ""] ELSE col[i]]
\* Series.mode()[0]: the most frequent non-missing value, the smallest on a tie
\* variant: the first value of the column that is not missing is the fill
FillFirstPresent(col) ==
  LET present == {k \in 1..Len(col) : ~col[k].na}
      fill == IF present = {} THEN Str("Unknown")
              ELSE col[CHOOSE k \in present : \A m \in present : k <= m]
  IN [i \in 1..Len(col) |-> IF col[i].na THEN fill ELSE col[i]]
FillMode(col) ==
  LET present == {col[i].s : i \in {k \in 1..Len(col) : ~col[k].na}}
      Count(w) == Cardinality({i \in 1..Len(col) : ~col[i].na /\ col[i].s = w})
      best == {w \in present : \A u \in present : Count(u) <= Count(w)}
      fill == IF present = {} THEN "Unknown"
              ELSE CHOOSE w \in best : \A u \in best : TextRank(w) <= TextRank(u)
  IN [i \in 1..Len(col) |-> IF col[i].na THEN Str(fill) ELSE col[i]]
\* fillna(method='ffill'): the last non-missing value above, if any
FillForward(col) ==
  [i \in 1..Len(col) |->
     LET above == {k \in 1..(i - 1) : ~col[k].na}
     IN IF col[i].na /\ above # {}
        THEN col[CHOOSE k \in above : \A m \in above : m <= k]
        ELSE col[i]]
FillColumn(t, j) ==
  IF t.dtypes[j] \in {"int64", "float64"} THEN FillMedian(ColumnOf(t, j))
  ELSE IF t.dtypes[j] = "object" THEN FillMode(ColumnOf(t, j))
  ELSE FillForward(ColumnOf(t, j))
\* missing_counts[col] is a Series when the label col is not unique, and
\* "if missing_pct > 50" then raises ValueError
HandleMissingRaises(t) ==
  \E j \in 1..NCols(t) : MissingCount(t, j) > 0 /\ ~UniqueLabel(t, j)
\* variant: dropna(axis=1), the columns that have missing values are dropped
HandleMissingDropColumns(t) ==
  LET keep == SelectSeq([j \in 1..NCols(t) |-> j], LAMBDA j : MissingCount(t, j) = 0)
  IN [columns |-> [n \in 1..Len(keep) |-> t.columns[keep[n]]],
      dtypes |-> [n \in 1..Len(keep) |-> t.dtypes[keep[n]]],
      rows |-> [i \in 1..NRows(t) |-> [n \in 1..Len(keep) |-> t.rows[i][keep[n]]]]]
HandleMissingValues(t) ==
  [t EXCEPT !.rows = [i \in 1..NRows(t) |-> [j \in 1..NCols(t) |->
     IF MissingCount(t, j) > 0 THEN FillColumn(t, j)[i] ELSE t.rows[i][j]]]]

-----------------------------------------------------------------------------
(* _optimize_data_types *)
I8Min == -128
I8Max == 127
I16Min == -32768
I16Max == 32767
I32Min == -2147483647 - 1
I32Max == 2147483647
F16Max == 65504
\* 2^(significand bits): 11 bits for float16, 24 for float32
F16Sig == 2048
F32Sig == 16777216

MinOf(xs) == CHOOSE x \in Range(xs) : \A y \in Range(xs) : x <= y
MaxOf(xs) == CHOOSE x \in Range(xs) : \A y \in Range(xs) : y <= x
\* the dtype the if/elif chain of lines 141-146 picks for an int64 column
\* variant: only the maximum of the column is compared with the limits
IntTierByMax(c_min, c_max) ==
  IF c_max < I8Max THEN "int8"
  ELSE IF c_max < I16Max THEN "int16"
  ELSE IF c_max < I32Max THEN "int32"
  ELSE "int64"
IntTier(c_min, c_max) ==
  IF c_min > I8Min /\ c_max < I8Max THEN "int8"
  ELSE IF c_min > I16Min /\ c_max < I16Max THEN "int16"
  ELSE IF c_min > I32Min /\ c_max < I32Max THEN "int32"
  ELSE "int64"
\* astype to a signed integer type of range lo..hi: values outside wrap around
AsInt(v, lo, hi) == IF lo <= v /\ v <= hi THEN v ELSE lo + ((v - lo) % (hi - lo + 1))
CastInt(v, dtype) ==
  IF dtype = "int8" THEN AsInt(v, I8Min, I8Max)
  ELSE IF dtype = "int16" THEN AsInt(v, I16Min, I16Max)
  ELSE IF dtype = "int32" THEN AsInt(v, I32Min, I32Max)
  ELSE v
OptimizeInt(col) ==
  LET vals == [i \in 1..Len(col) |-> col[i].x2 \div 2]
      dtype == IF Len(col) = 0 THEN "int64" ELSE IntTier(MinOf(vals), MaxOf(vals))
  IN [dtype |-> dtype,
      col |-> [i \in 1..Len(col) |-> Num(CastInt(vals[i], dtype))]]
RECURSIVE Ulp(_, _, _)
\* spacing (in halves) of the floats around magnitude a (in halves)
Ulp(a, u, sig) == IF a \div u < sig THEN u ELSE Ulp(a, 2 * u, sig)
\* astype to a binary float: round to nearest, ties to even
RoundFloat(x2, sig) ==
  LET a == Abs(x2)
      u == Ulp(a, 1, sig)
      q == a \div u
      r == a % u
      up == 2 * r > u \/ (2 * r = u /\ q % 2 = 1)
      m == (IF up THEN q + 1 ELSE q) * u
  IN IF x2 < 0 THEN -m ELSE m
\* the dtype lines 153-156 pick: every finite value of the model is inside
\* float32's range, and the minimum of an all-missing column is NaN
FloatTier(col) ==
  LET vals == Values2(col)
  IN IF Len(vals) = 0 THEN "float64"
     ELSE IF MinOf(vals) > -2 * F16Max /\ MaxOf(vals) < 2 * F16Max THEN "float16"
     ELSE "float32"
OptimizeFloat(col) ==
  LET dtype == FloatTier(col)
      sig == IF dtype = "float16" THEN F16Sig ELSE F32Sig
  IN [dtype |-> dtype,
      col |-> [i \in 1..Len(col) |->
                 IF col[i].na \/ dtype = "float64" THEN col[i]
                 ELSE [col[i] EXCEPT !.x2 = RoundFloat(col[i].x2, sig)]]]
\* len(unique) / len < 0.5, unique() counting the missing value as one value
OptimizeObject(col) ==
  [dtype |-> IF 2 * Cardinality(Range(col)) < Len(col) THEN "category" ELSE "object",
   col |-> col]
OptimizeColumn(t, j) ==
  IF t.dtypes[j] = "int64" THEN OptimizeInt(ColumnOf(t, j))
  ELSE IF t.dtypes[j] = "float64" THEN OptimizeFloat(ColumnOf(t, j))
  ELSE IF t.dtypes[j] = "object" THEN OptimizeObject(ColumnOf(t, j))
  ELSE [dtype |-> t.dtypes[j], col |-> ColumnOf(t, j)]
\* df[col] is a DataFrame when the label is not unique: no .dtype, no .unique();
\* and len(unique) / len(df[col]) divides by zero on a table without rows
OptimizeRaises(t) ==
  \/ \E j \in 1..NCols(t) :
       t.dtypes[j] \in {"int64", "float64", "object"} /\ ~UniqueLabel(t, j)
  \/ \E j \in 1..NCols(t) : t.dtypes[j] = "object" /\ NRows(t) = 0
OptimizeDataTypes(t) ==
  [t EXCEPT
     !.dtypes = [j \in 1..NCols(t) |-> OptimizeColumn(t, j).dtype],
     !.rows = [i \in 1..NRows(t) |-> [j \in 1..NCols(t) |-> OptimizeColumn(t, j).col[i]]]]

-----------------------------------------------------------------------------
(* _handle_outliers, one numeric column at a time.  Thresholds are multiples *)
(* of 1/2 and kept doubled (k2 = 2 * threshold); quartiles are kept in       *)
(* eighths and fences in sixteenths of a unit, so every value is an integer. *)
NumericDtypes == {"int8", "int16", "int32", "int64", "float16", "float32", "float64"}
NumericCols(t) == SelectSeq([j \in 1..NCols(t) |-> j], LAMBDA j : t.dtypes[j] \in NumericDtypes)
\* Series.quantile(p4 / 4), linear interpolation, of sorted doubled values, times 4
Quantile(vals, p4) ==
  LET pos4 == (Len(vals) - 1) * p4
      i == pos4 \div 4 + 1
      f == pos4 % 4
  IN IF f = 0 THEN 4 * vals[i] ELSE 4 * vals[i] + f * (vals[i + 1] - vals[i])
\* [defined, lo, hi]: lower_bound and upper_bound of lines 179-183, times 16
IqrFence(col, k2) ==
  LET vals == Sorted(Values2(col))
      Q1 == Quantile(vals, 1)
      Q3 == Quantile(vals, 3)
      IQR == Q3 - Q1
  IN IF Len(vals) = 0 THEN [defined |-> FALSE, lo |-> 0, hi |-> 0]
     ELSE [defined |-> TRUE, lo |-> 2 * Q1 - k2 * IQR, hi |-> 2 * Q3 + k2 * IQR]
Outside(c, fence) == ~c.na /\ fence.defined /\ (8 * c.x2 < fence.lo \/ 8 * c.x2 > fence.hi)
\* variant: only values above the upper bound are outliers
IqrMaskUpper(col, k2) ==
  [i \in 1..Len(col) |-> LET f == IqrFence(col, k2)
                          IN ~col[i].na /\ f.defined /\ 8 * col[i].x2 > f.hi]
IqrMask(col, k2) == [i \in 1..Len(col) |-> Outside(col[i], IqrFence(col, k2))]
\* |x - mean| / std > threshold, std with ddof = 1; a comparison with NaN
\* (fewer than two values, or 0 / 0) is False
ZscoreMask(col, k2) ==
  LET vals == Values2(col)
      n == Len(vals)
      total == SumSeq(vals)
      ss == SumSeq([i \in 1..n |-> (n * vals[i] - total) * (n * vals[i] - total)])
  IN [i \in 1..Len(col) |->
        /\ ~col[i].na
        /\ n >= 2
        /\ ss > 0
        /\ 4 * (n - 1) * (n * col[i].x2 - total) * (n * col[i].x2 - total) > k2 * k2 * ss]
OutlierMask(col, method, k2) ==
  IF method = "iqr" THEN IqrMask(col, k2) ELSE ZscoreMask(col, k2)
\* variant: every column is tested on the table _handle_outliers was given
RemoveOutliersOfInput(t, j, method, k2) ==
  LET mask == OutlierMask(ColumnOf(before, j), method, k2)
  IN [before EXCEPT !.rows = SelectRows(before.rows, [i \in 1..NRows(before) |-> ~mask[i]], 1)]
\* df = df[~mask]
RemoveOutliers(t, j, method, k2) ==
  LET mask == OutlierMask(ColumnOf(t, j), method, k2)
  IN [t EXCEPT !.rows = SelectRows(t.rows, [i \in 1..NRows(t) |-> ~mask[i]], 1)]
\* df[col] is a DataFrame when the label is not unique, mask.sum() a Series,
\* and "if outliers_count > 0" raises ValueError
OutlierRaises(t, j) == ~UniqueLabel(t, j)

-----------------------------------------------------------------------------
(* Inputs of the cleaner runs.  A schema lists, per column, its label, its   *)
(* dtype and the cells the model draws for it.                               *)
ColumnSpec(name, dtype, cells) == [name |-> name, dtype |-> dtype, cells |-> cells]
RowsOf(schema) ==
  {r \in [1..Len(schema) -> UNION {schema[j].cells : j \in 1..Len(schema)}] :
     \A j \in 1..Len(schema) : r[j] \in schema[j].cells}
Tables(schema, maxrows) ==
  {[columns |-> [j \in 1..Len(schema) |-> schema[j].name],
    dtypes |-> [j \in 1..Len(schema) |-> schema[j].dtype],
    rows |-> rows] : rows \in UNION {[1..k -> RowsOf(schema)] : k \in 0..maxrows}}

Ints == {Num(1), Num(9)}
Floats == {NaN, Num(1), Num(2)}
Texts == {NaN, Str("x"), Str("y")}
Bools == {Num(0), Num(1)}
Dates == {NaN, Num(1)}
PipelineSchemas ==
  { <<ColumnSpec(<<"A">>, "int64", Ints)>>,
    <<ColumnSpec(<<"a", " ", "a">>, "float64", Floats)>>,
    <<ColumnSpec(<<"A", "-">>, "object", Texts)>>,
    <<ColumnSpec(<<"-", "a">>, "datetime64[ns]", Dates)>>,
    <<ColumnSpec(<<"A">>, "int64", Ints), ColumnSpec(<<"a">>, "int64", Ints)>>,
    <<ColumnSpec(<<"A">>, "bool", Bools), ColumnSpec(<<"a", " ">>, "bool", Bools)>>,
    <<ColumnSpec(<<"A">>, "object", Texts), ColumnSpec(<<"a">>, "int64", Ints)>>,
    <<ColumnSpec(<<"a">>, "float64", Floats), ColumnSpec(<<"a", "a">>, "int64", Ints)>>,
    <<ColumnSpec(<<"a", "a">>, "object", Texts), ColumnSpec(<<"a">>, "int64", Ints)>> }
\* the values around the limits of the 8-, 16- and 32-bit tiers
EdgeInts ==
  {Num(v) : v \in {-100000, -32769, -32768, -32767, -129, -128, -127, 0,
                   126, 127, 128, 32766, 32767, 32768, 100000}}
EdgeSchemas == { <<ColumnSpec(<<"a">>, "int64", EdgeInts)>> }
OutlierSchemas ==
  { <<ColumnSpec(<<"a">>, "float64", {Num(0), Num(1), Num(2), Num(9)})>>,
    <<ColumnSpec(<<"a">>, "int64", Ints),
      ColumnSpec(<<"a", "a">>, "float64", {NaN, Num(0), Num(1)})>> }

\* keyword arguments of clean_data; outlier_threshold is kept doubled
Config(cc, hd, hm, ot, ro, method, k2) ==
  [clean_columns |-> cc, handle_duplicates |-> hd, handle_missing |-> hm,
   optimize_types |-> ot, remove_outliers |-> ro,
   outlier_method |-> method, outlier_threshold |-> k2]
DefaultThreshold == 3
OutlierSettings == {<<"iqr", 0>>, <<"iqr", DefaultThreshold>>,
                    <<"zscore", 1>>, <<"zscore", DefaultThreshold>>}
PipelineConfigs ==
  {Config(cc, hd, hm, ot, FALSE, "iqr", DefaultThreshold) :
     cc \in BOOLEAN, hd \in BOOLEAN, hm \in BOOLEAN, ot \in BOOLEAN}
  \cup {Config(c[1], c[2], c[3], c[4], TRUE, o[1], o[2]) :
          c \in BOOLEAN \X BOOLEAN \X BOOLEAN \X BOOLEAN, o \in OutlierSettings}
EdgeConfigs ==
  {Config(TRUE, TRUE, TRUE, ot, ro, "iqr", DefaultThreshold) :
     ot \in BOOLEAN, ro \in BOOLEAN}
OutlierConfigs ==
  {Config(FALSE, FALSE, FALSE, FALSE, FALSE, "iqr", DefaultThreshold)}
  \cup {Config(FALSE, FALSE, FALSE, FALSE, TRUE, o[1], o[2]) :
          o \in {"iqr", "zscore"} \X (0..3)}
\* the module-level clean_data(df) of lines 240-243
DefaultConfig == Config(TRUE, TRUE, TRUE, TRUE, FALSE, "iqr", DefaultThreshold)

NoLoop == [todo |-> <<>>, fences |-> <<>>]

-----------------------------------------------------------------------------
(* The session: st.session_state as SessionManager keeps it, the widgets of *)
(* chart_form, and the outcome of the last script run.                      *)
None == <<"None">>
NoFrame == [is_none |-> TRUE, frame |-> NoTable]
Some(t) == [is_none |-> FALSE, frame |-> t]
\* SessionManager.initialize_session on a fresh session (lines 15-24)
InitialSession ==
  [cleaned_df |-> NoFrame, selected_charts |-> <<>>,
   kpi_suggestions |-> "None", uploaded_file_info |-> "None"]
\* chart_form before any submit: the first chart type, no size column
InitialForm == [chart_type |-> "Bar", kpi |-> None, size_col |-> None]
NoRun == [run |-> "none", label |-> <<>>, result |-> "none"]
\* dashboard_config.py lines 34-38: the selectbox starts on its first option,
\* the color picker on the default blue; chosen is what the user last set
NoChoice == [color_mode |-> "unset", plain_color |-> ""]
InitialColors == [color_mode |-> "plain", plain_color |-> "#1f77b4", chosen |-> NoChoice]
NoRender == [site |-> "none", figs |-> <<>>, raised |-> "none", doc |-> <<>>]
\* serve_dashboard_live not called
IdleServer == [pc |-> "idle", in_use |-> {}, EADDRINUSE |-> 0, port |-> 0, attempt |-> 0,
               tried |-> <<>>, bound |-> 0, url |-> 0, browser_thread |-> FALSE,
               reported |-> "none", raised |-> "none", cwd |-> "original"]

-----------------------------------------------------------------------------
(* DataCleaner.clean_data as a step machine. *)
CallWith(tables, configs) ==
  /\ df \in tables
  /\ cfg \in configs
  /\ cleaned_df = df
  /\ same_object = TRUE
  /\ pc = "call"
  /\ entry = df
  /\ before = df
  /\ steps = <<>>
  /\ outl = NoLoop
  /\ session_state = InitialSession
  /\ page = "none"
  /\ form = InitialForm
  /\ outcome = NoRun
  /\ colors = InitialColors
  /\ rendered = NoRender
  /\ srv = IdleServer

InitClean ==
  CallWith(UNION {Tables(schema, MaxRows) : schema \in PipelineSchemas}, PipelineConfigs)
InitEdges ==
  CallWith(UNION {Tables(schema, MaxEdgeRows) : schema \in EdgeSchemas}, EdgeConfigs)
InitOutliers ==
  CallWith(UNION {Tables(schema, MaxOutlierRows) : schema \in OutlierSchemas}, OutlierConfigs)

\* tables of a text column and a numeric column with missing values, cleaned
\* with missing-value handling on
MaxMissingRows == 4
MissingSchemas ==
  { <<ColumnSpec(<<"a">>, "object", Texts),
      ColumnSpec(<<"b">>, "float64", {NaN, Num(1)})>> }
MissingConfigs ==
  {Config(FALSE, hd, TRUE, FALSE, ro, "iqr", DefaultThreshold) :
     hd \in BOOLEAN, ro \in BOOLEAN}
InitMissing ==
  CallWith(UNION {Tables(schema, MaxMissingRows) : schema \in MissingSchemas}, MissingConfigs)

\* lines 37-43: the empty-input error, then cleaned_df = df.copy()
Call ==
  /\ pc = "call"
  /\ IF IsEmpty(df)
     THEN /\ pc' = "raised"
          /\ UNCHANGED <<cleaned_df, same_object>>
     ELSE /\ pc' = "clean_columns"
          /\ cleaned_df' = df
          /\ same_object' = FrameCopy(same_object)
  /\ UNCHANGED <<df, cfg, entry, before, steps, outl, sessionVars, viewVars, srv>>

\* lines 51-52 and 79-83
StepCleanColumns ==
  /\ pc = "clean_columns"
  /\ pc' = "handle_duplicates"
  /\ IF cfg.clean_columns
     THEN LET alias == FrameCopy(same_object)
              t == CleanColumnNames(cleaned_df)
          IN /\ cleaned_df' = t
             /\ same_object' = alias
             /\ df' = WriteThrough(alias, df, t)
             /\ before' = cleaned_df
             /\ steps' = Append(steps, "_clean_column_names")
     ELSE UNCHANGED <<df, cleaned_df, same_object, before, steps>>
  /\ UNCHANGED <<cfg, entry, outl, sessionVars, viewVars, srv>>

\* variant: the duplicates are removed from the table clean_data was given
StepDuplicatesOfInput ==
  /\ pc = "handle_duplicates"
  /\ pc' = "handle_missing"
  /\ IF cfg.handle_duplicates
     THEN /\ cleaned_df' = HandleDuplicates(entry)
          /\ same_object' = FALSE
          /\ before' = cleaned_df
          /\ steps' = Append(steps, "_handle_duplicates")
     ELSE UNCHANGED <<cleaned_df, same_object, before, steps>>
  /\ UNCHANGED <<df, cfg, entry, outl, sessionVars, viewVars, srv>>
\* lines 54-55 and 86-92: drop_duplicates returns a new table
StepDuplicates ==
  /\ pc = "handle_duplicates"
  /\ pc' = "handle_missing"
  /\ IF cfg.handle_duplicates
     THEN /\ cleaned_df' = HandleDuplicates(cleaned_df)
          /\ same_object' = FALSE
          /\ before' = cleaned_df
          /\ steps' = Append(steps, "_handle_duplicates")
     ELSE UNCHANGED <<cleaned_df, same_object, before, steps>>
  /\ UNCHANGED <<df, cfg, entry, outl, sessionVars, viewVars, srv>>

\* lines 57-58 and 95-126
StepMissing ==
  /\ pc = "handle_missing"
  /\ IF cfg.handle_missing
     THEN LET alias == FrameCopy(same_object)
              t == HandleMissingValues(cleaned_df)
          IN /\ before' = cleaned_df
             /\ steps' = Append(steps, "_handle_missing_values")
             /\ same_object' = alias
             /\ IF HandleMissingRaises(cleaned_df)
                THEN pc' = "raised" /\ UNCHANGED <<df, cleaned_df>>
                ELSE /\ pc' = "optimize_types"
                     /\ cleaned_df' = t
                     /\ df' = WriteThrough(alias, df, t)
     ELSE /\ pc' = "optimize_types"
          /\ UNCHANGED <<df, cleaned_df, same_object, before, steps>>
  /\ UNCHANGED <<cfg, entry, outl, sessionVars, viewVars, srv>>

\* lines 60-61 and 128-167
StepTypes ==
  /\ pc = "optimize_types"
  /\ IF cfg.optimize_types
     THEN LET alias == FrameCopy(same_object)
              t == OptimizeDataTypes(cleaned_df)
          IN /\ before' = cleaned_df
             /\ steps' = Append(steps, "_optimize_data_types")
             /\ same_object' = alias
             /\ IF OptimizeRaises(cleaned_df)
                THEN pc' = "raised" /\ UNCHANGED <<df, cleaned_df>>
                ELSE /\ pc' = "remove_outliers"
                     /\ cleaned_df' = t
                     /\ df' = WriteThrough(alias, df, t)
     ELSE /\ pc' = "remove_outliers"
          /\ UNCHANGED <<df, cleaned_df, same_object, before, steps>>
  /\ UNCHANGED <<cfg, entry, outl, sessionVars, viewVars, srv>>

\* lines 63-66 and 169-175: df.copy() and the list of numeric columns
StepOutliers ==
  /\ pc = "remove_outliers"
  /\ IF cfg.remove_outliers
     THEN /\ same_object' = FrameCopy(same_object)
          /\ before' = cleaned_df
          /\ steps' = Append(steps, "_handle_outliers")
          /\ outl' = [todo |-> NumericCols(cleaned_df), fences |-> <<>>]
          /\ pc' = IF NumericCols(cleaned_df) = <<>> THEN "return" ELSE "outlier_loop"
     ELSE /\ pc' = "return"
          /\ UNCHANGED <<same_object, before, steps, outl>>
  /\ UNCHANGED <<df, cleaned_df, cfg, entry, sessionVars, viewVars, srv>>

\* lines 177-201: one pass of the loop over the numeric columns
OutlierColumn ==
  /\ pc = "outlier_loop"
  /\ LET j == Head(outl.todo)
         t == RemoveOutliers(cleaned_df, j, cfg.outlier_method, cfg.outlier_threshold)
     IN IF OutlierRaises(cleaned_df, j)
        THEN pc' = "raised" /\ UNCHANGED <<cleaned_df, same_object, outl>>
        ELSE /\ cleaned_df' = t
             /\ same_object' = IF NRows(t) < NRows(cleaned_df) THEN FALSE ELSE same_object
             /\ outl' = [todo |-> Tail(outl.todo),
                         fences |-> Append(outl.fences,
                            [col |-> j, rows |-> cleaned_df.rows,
                             fence |-> IqrFence(ColumnOf(cleaned_df, j),
                                                cfg.outlier_threshold)])]
             /\ pc' = IF Tail(outl.todo) = <<>> THEN "return" ELSE "outlier_loop"
  /\ UNCHANGED <<df, cfg, entry, before, steps, sessionVars, viewVars, srv>>

NextClean ==
  \/ Call
  \/ StepCleanColumns
  \/ StepDuplicates
  \/ StepMissing
  \/ StepTypes
  \/ StepOutliers
  \/ OutlierColumn

SpecClean == InitClean /\ [][NextClean]_vars
SpecEdges == InitEdges /\ [][NextClean]_vars
SpecOutliers == InitOutliers /\ [][NextClean]_vars
SpecMissing == InitMissing /\ [][NextClean]_vars

-----------------------------------------------------------------------------
(* The pages.  One action is one run of a page's script, started by one     *)
(* interaction of the user, up to the end of the run it triggers.           *)
Pages == {"app", "dashboard_config", "dis_view"}
CHART_TYPES == <<"Bar", "Line", "Area", "Scatter", "Pie", "Histogram", "Box",
                 "Violin", "Heatmap", "Bubble">>
\* the chart types the user of the model picks
PickedTypes == {c \in Range(CHART_TYPES) : c \in {"Bar", "Bubble"}}

\* files the user of the model uploads: two numeric columns; one text column;
\* no rows; labels that collide once normalized; a type read_file does not
\* know; a file pandas cannot parse
SessionFiles ==
  { [ext |-> "csv", parses |-> TRUE,
     frame |-> [columns |-> << <<"A">>, <<"a", " ", "a">> >>,
                dtypes |-> <<"int64", "float64">>,
                rows |-> << <<Num(1), Num(2)>>, <<Num(9), NaN>> >>]],
    [ext |-> "xlsx", parses |-> TRUE,
     frame |-> [columns |-> << <<"A", "-">> >>, dtypes |-> <<"object">>,
                rows |-> << <<Str("x")>>, <<Str("x")>> >>]],
    [ext |-> "csv", parses |-> TRUE,
     frame |-> [columns |-> << <<"A">> >>, dtypes |-> <<"int64">>, rows |-> <<>>]],
    [ext |-> "csv", parses |-> TRUE,
     frame |-> [columns |-> << <<"A">>, <<"a">> >>, dtypes |-> <<"int64", "int64">>,
                rows |-> << <<Num(1), Num(1)>> >>]],
    [ext |-> "txt", parses |-> TRUE,
     frame |-> [columns |-> << <<"A">> >>, dtypes |-> <<"int64">>, rows |-> << <<Num(1)>> >>]],
    [ext |-> "xlsx", parses |-> FALSE, frame |-> NoTable] }

-----------------------------------------------------------------------------
(* utils/kpi_engine.py: KPIEngine.create_chart.  A figure is kept as the    *)
(* columns it plots, its points, its annotation and the color settings of  *)
(* the engine that built it.                                                *)
\* Python truthiness of an optional string
Truthy(str) == str # None /\ str # <<>>
DefaultColor == "#1f77b4"
Policy(color_mode, plain_color) == [color_mode |-> color_mode, plain_color |-> plain_color]
NoPoints == <<>>
Fig(kind, x_col, y_col, size_col, points, annotation, policy) ==
  [raised |-> "none", kind |-> kind, x_col |-> x_col, y_col |-> y_col,
   size_col |-> size_col, points |-> points, annotation |-> annotation, policy |-> policy]
Failed(exception, policy) ==
  [raised |-> exception, kind |-> "none", x_col |-> None, y_col |-> None,
   size_col |-> None, points |-> NoPoints, annotation |-> "", policy |-> policy]
\* clean_select: the string "None" stands for no selection
\* variant: the string "None" is kept as a column name
CleanSelectKeep(value) == value
clean_select(value) == IF value = <<"N", "o", "n", "e">> THEN None ELSE value
ColumnIndex(t, name) == CHOOSE j \in 1..NCols(t) : t.columns[j] = name
HasColumn(t, name) == \E j \in 1..NCols(t) : t.columns[j] = name
\* get_numeric_columns: select_dtypes(include=['number'])
IsNumericColumn(t, name) ==
  HasColumn(t, name) /\ t.dtypes[ColumnIndex(t, name)] \in NumericDtypes
\* order of the group keys: numbers by value, the texts of the model by TextOrder
CellRank(c) == IF c.s # "" THEN TextRank(c.s) ELSE c.x2
SortCells(S) ==
  CHOOSE q \in [1..Cardinality(S) -> S] :
    \A i, j \in 1..Cardinality(S) : i < j => CellRank(q[i]) < CellRank(q[j])
\* a plotted value num / den; den = 0 is NaN (the mean of no value)
Value(num, den) == [num |-> num, den |-> den]
Raw(c) == IF c.na THEN Value(0, 0) ELSE Value(c.x2, 1)
\* groupby(group_by)[kpi].agg(sum, mean, count), keys sorted, missing keys
\* dropped; the mean of the non-missing kpi values of each group is plotted
GroupMeans(t, kpi, group_by) ==
  LET g == ColumnIndex(t, group_by)
      k == ColumnIndex(t, kpi)
      keys == SortCells({t.rows[i][g] : i \in {r \in 1..NRows(t) : ~t.rows[r][g].na}})
      Members(key) == {i \in 1..NRows(t) : t.rows[i][g] = key /\ ~t.rows[i][k].na}
      Total(key) == SumSeq(Values2([i \in 1..NRows(t) |->
                       IF i \in Members(key) THEN t.rows[i][k] ELSE NaN]))
  IN [n \in 1..Len(keys) |->
        [x |-> keys[n], y |-> Value(Total(keys[n]), Cardinality(Members(keys[n])))]]
\* the rows of the table as they are: x and y taken from two columns
RowPoints(t, x_name, y_name) ==
  [i \in 1..NRows(t) |->
     [x |-> t.rows[i][ColumnIndex(t, x_name)], y |-> Raw(t.rows[i][ColumnIndex(t, y_name)])]]
\* the rows against their position (reset_index)
IndexPoints(t, y_name) ==
  [i \in 1..NRows(t) |-> [x |-> Num(i - 1), y |-> Raw(t.rows[i][ColumnIndex(t, y_name)])]]
\* lines 142-186
CreateStandardChart(t, kpi, chart_type, group_by, secondary_kpi, policy) ==
  LET grp == clean_select(group_by)
      y_name == IF Truthy(secondary_kpi) THEN secondary_kpi ELSE kpi
  IN IF chart_type \notin Range(CHART_TYPES) THEN Failed("KeyError", policy)
     ELSE IF Truthy(grp) /\ (~HasColumn(t, kpi) \/ ~HasColumn(t, grp))
     THEN Failed("KeyError", policy)
     ELSE IF Truthy(grp) /\ ~IsNumericColumn(t, kpi) THEN Failed("TypeError", policy)
     ELSE IF chart_type \in {"Bar", "Line", "Area"}
     THEN IF Truthy(grp)
          THEN Fig(chart_type, grp, kpi \o <<"_mean">>, None,
                   GroupMeans(t, kpi, grp), "", policy)
          ELSE IF ~HasColumn(t, kpi) THEN Failed("ValueError", policy)
          ELSE Fig(chart_type, <<"index">>, kpi, None, IndexPoints(t, kpi), "", policy)
     ELSE IF ~HasColumn(t, kpi) \/ ~HasColumn(t, y_name) THEN Failed("ValueError", policy)
     ELSE Fig(chart_type, kpi, y_name, None, RowPoints(t, kpi, y_name), "", policy)
\* lines 208-224
CreatePieChart(t, kpi, group_by, policy) ==
  LET grp == clean_select(group_by)
  IN IF ~Truthy(grp)
     THEN Fig("placeholder", None, None, None, NoPoints,
              "Pie chart requires a group-by column", policy)
     ELSE IF ~HasColumn(t, kpi) \/ ~HasColumn(t, grp) THEN Failed("KeyError", policy)
     ELSE IF ~IsNumericColumn(t, kpi) THEN Failed("TypeError", policy)
     ELSE Fig("Pie", grp, kpi, None,
              [n \in 1..Len(GroupMeans(t, kpi, grp)) |->
                 [x |-> GroupMeans(t, kpi, grp)[n].x,
                  y |-> Value(GroupMeans(t, kpi, grp)[n].y.num, 1)]], "", policy)
\* lines 188-196
CreateHeatmap(t, policy) ==
  IF Len(NumericCols(t)) < 2
  THEN Fig("placeholder", None, None, None, NoPoints,
           "Need at least 2 numeric columns for heatmap", policy)
  ELSE Fig("Heatmap", None, None, None, NoPoints, "", policy)
\* lines 198-206: the size of a bubble is the secondary column; a size that is
\* missing or negative is refused by the plotting library
CreateBubbleChart(t, kpi, secondary_kpi, policy) ==
  LET sec == IF Truthy(secondary_kpi) THEN secondary_kpi ELSE kpi
      sizes == IF HasColumn(t, sec) THEN ColumnOf(t, ColumnIndex(t, sec)) ELSE <<>>
  IN IF ~HasColumn(t, kpi) THEN Failed("ValueError", policy)
     ELSE IF ~IsNumericColumn(t, sec)
     THEN Fig("Bubble", kpi, kpi, None, RowPoints(t, kpi, kpi), "", policy)
     ELSE IF \E i \in 1..Len(sizes) : sizes[i].na \/ sizes[i].x2 < 0
     THEN Failed("ValueError", policy)
     ELSE Fig("Bubble", kpi, sec, sec, RowPoints(t, kpi, sec), "", policy)
\* lines 101-140; _apply_color_mode changes colors only, with the settings
\* the engine was built with
CreateChart(t, kpi, chart_type, group_by, secondary_kpi, policy) ==
  IF chart_type = "Heatmap" THEN CreateHeatmap(t, policy)
  ELSE IF chart_type = "Bubble" THEN CreateBubbleChart(t, kpi, secondary_kpi, policy)
  ELSE IF chart_type = "Pie" THEN CreatePieChart(t, kpi, group_by, policy)
  ELSE IF chart_type \in {"Histogram", "Box", "Violin"}
  THEN IF ~HasColumn(t, kpi) THEN Failed("ValueError", policy)
       ELSE Fig(chart_type, IF chart_type = "Histogram" THEN kpi ELSE None,
                IF chart_type = "Histogram" THEN None ELSE kpi, None,
                RowPoints(t, kpi, kpi), "", policy)
  ELSE CreateStandardChart(t, kpi, chart_type, group_by, secondary_kpi, policy)

-----------------------------------------------------------------------------
(* The pages' script runs. *)
Raise(kind) == [raised |-> kind, frame |-> NoTable]
Return(t) == [raised |-> "none", frame |-> t]
\* variant: the parsed table is returned without the test of df.empty
ReadFileUnchecked(f) ==
  IF f.ext \notin {"csv", "xlsx", "xls"} \/ ~f.parses THEN Raise("ValueError")
  ELSE Return(f.frame)
\* utils/file_handler.py read_file: an unknown suffix, an error of
\* pd.read_csv / pd.read_excel and an empty table all leave as a ValueError
ReadFile(f) ==
  IF f.ext \notin {"csv", "xlsx", "xls"} THEN Raise("ValueError")
  ELSE IF ~f.parses THEN Raise("ValueError")
  ELSE IF IsEmpty(f.frame) THEN Raise("ValueError")
  ELSE Return(f.frame)
\* the module-level clean_data(df): DataCleaner().clean_data with the first
\* four steps enabled and outlier removal left disabled
CleanData(t) ==
  LET t1 == HandleDuplicates(CleanColumnNames(t))
      t2 == HandleMissingValues(t1)
  IN IF IsEmpty(t) THEN Raise("ValueError")
     ELSE IF HandleMissingRaises(t1) THEN Raise("ValueError")
     ELSE IF OptimizeRaises(t2) THEN Raise("AttributeError")
     ELSE Return(OptimizeDataTypes(t2))

HasData == ~session_state.cleaned_df.is_none
StoredFrame == session_state.cleaned_df.frame
SelectedCharts == session_state.selected_charts
\* SessionManager.store_data with a non-empty file_info
StoreData(t) == [session_state EXCEPT !.cleaned_df = Some(t), !.uploaded_file_info = "info"]
StoreSelectedCharts(charts) == [session_state EXCEPT !.selected_charts = charts]
Ran(run, label, result) == [run |-> run, label |-> label, result |-> result]

\* dashboard_config.py lines 59-61: the run stops inside the form, nothing below it is shown
\* variant: the submission is never stopped
StuckNever(w) == FALSE
Stuck(w) == w.chart_type = "Bubble" /\ w.kpi = w.size_col
\* dashboard_config.py lines 99-116: every chart of the list is built with the
\* sidebar's settings, the size column passed as secondary_kpi; a failure is
\* caught and shown in place of the chart
RenderConfig(ss, w) ==
  [site |-> "dashboard_config",
   figs |-> [i \in 1..Len(ss.selected_charts) |->
               LET c == ss.selected_charts[i]
               IN CreateChart(ss.cleaned_df.frame, c.kpi, c.chart_type, c.group_by, c.size,
                              Policy(w.color_mode, w.plain_color))],
   raised |-> "none", doc |-> <<>>]
\* dis_view.py lines 28-29: st.session_state.get("color_mode", "randomized") and
\* get("plain_color", "#1f77b4"); no code stores these keys, the defaults apply
ViewPolicy == Policy("randomized", DefaultColor)
\* create_chart(**chart_spec): kpi, chart_type, group_by and label are taken,
\* the key size goes to **kwargs, secondary_kpi keeps its default None
ViewChart(ss, c) ==
  CreateChart(ss.cleaned_df.frame, c.kpi, c.chart_type, c.group_by, None, ViewPolicy)
\* the charts before the first one whose construction raises; nothing catches
ViewFigures(ss) ==
  LET all == [i \in 1..Len(ss.selected_charts) |-> ViewChart(ss, ss.selected_charts[i])]
      bad == {i \in 1..Len(all) : all[i].raised # "none"}
      first == IF bad = {} THEN Len(all) + 1 ELSE CHOOSE i \in bad : \A j \in bad : i <= j
  IN [figs |-> SubSeq(all, 1, first - 1),
      raised |-> IF bad = {} THEN "none" ELSE all[first].raised]
\* dis_view.py lines 57-91
RenderView(ss) ==
  [site |-> "dis_view", figs |-> ViewFigures(ss).figs,
   raised |-> ViewFigures(ss).raised, doc |-> <<>>]
\* what a full run of page p builds: app.py shows no chart, dashboard_config.py
\* stops before the list without data or inside the form, dis_view.py stops
\* without data or without charts
PageRun(p, ss, w, frm) ==
  IF p = "dashboard_config" /\ ~ss.cleaned_df.is_none /\ ~Stuck(frm)
     /\ ss.selected_charts # <<>>
  THEN RenderConfig(ss, w)
  ELSE IF p = "dis_view" /\ ~ss.cleaned_df.is_none /\ ss.selected_charts # <<>>
  THEN RenderView(ss)
  ELSE NoRender

\* app.py lines 80-120: read_file and clean_data, each inside "except ValueError"
HomeUpload(f) ==
  /\ page = "app"
  /\ ~HasData
  /\ LET r == ReadFile(f)
         c == CleanData(r.frame)
     IN IF r.raised # "none"
        THEN outcome' = Ran("upload", <<>>, "read_error") /\ UNCHANGED session_state
        ELSE IF c.raised = "ValueError"
        THEN outcome' = Ran("upload", <<>>, "clean_error") /\ UNCHANGED session_state
        ELSE IF c.raised # "none"
        THEN outcome' = Ran("upload", <<>>, "uncaught") /\ UNCHANGED session_state
        ELSE outcome' = Ran("upload", <<>>, "stored") /\ session_state' = StoreData(c.frame)
  /\ rendered' = NoRender
  /\ UNCHANGED <<page, form, colors, srv, cleanerVars>>

\* app.py lines 73-75 and 134-136: clear_session, st.rerun, initialize_session
HomeResetData ==
  /\ page = "app"
  /\ HasData
  /\ session_state' = InitialSession
  /\ outcome' = Ran("reset_data", <<>>, "done")
  /\ rendered' = NoRender
  /\ UNCHANGED <<page, form, colors, srv, cleanerVars>>

\* dashboard_config.py lines 15-27: no try around clean_data(read_file(...))
ConfigUpload(f) ==
  /\ page = "dashboard_config"
  /\ ~HasData
  /\ LET r == ReadFile(f)
         c == CleanData(r.frame)
     IN IF r.raised # "none"
        THEN /\ outcome' = Ran("upload", <<>>, "read_uncaught")
             /\ rendered' = NoRender
             /\ UNCHANGED session_state
        ELSE IF c.raised # "none"
        THEN /\ outcome' = Ran("upload", <<>>, "uncaught")
             /\ rendered' = NoRender
             /\ UNCHANGED session_state
        ELSE /\ outcome' = Ran("upload", <<>>, "stored")
             /\ session_state' = StoreData(c.frame)
             /\ rendered' = PageRun(page, StoreData(c.frame), colors, form)
  /\ UNCHANGED <<page, form, colors, srv, cleanerVars>>

\* st.switch_page from a button, or the sidebar's page list; the widgets of
\* the page that is left are forgotten
Navigate(p) ==
  /\ p # page
  /\ page' = p
  /\ form' = InitialForm
  /\ outcome' = Ran("navigate", <<>>, "done")
  /\ colors' = [InitialColors EXCEPT !.chosen = colors.chosen]
  /\ rendered' = PageRun(p, session_state, InitialColors, InitialForm)
  /\ UNCHANGED <<session_state, srv, cleanerVars>>

\* df.select_dtypes(include='number').columns.tolist() and df.columns.tolist()
KpiOptions(t) == [i \in 1..Len(NumericCols(t)) |-> t.columns[NumericCols(t)[i]]]
\* st.selectbox returns the picked option, None when there is no option
Selectable(options) == IF options = <<>> THEN {None} ELSE Range(options)
FirstOption(options) == IF options = <<>> THEN None ELSE options[1]
\* f"{chart_type} of {kpi} by {group_by}"
DefaultLabel(chart_type, kpi, group_by) ==
  <<chart_type, " of ">> \o kpi \o <<" by ">> \o group_by
\* what the user of the model types as label: nothing, a word, or the text
\* of the default label of a Bar chart of the first columns
TypedLabels(t) ==
  {<<>>, <<"Q">>, DefaultLabel("Bar", FirstOption(KpiOptions(t)), t.columns[1])}
Labels(charts) == [i \in 1..Len(charts) |-> charts[i].label]
\* variant: the new label is compared with the generated descriptions of the
\* charts of the list, not with their stored labels
LabelTakenByDescription(chart_label, charts) ==
  chart_label \in {DefaultLabel(charts[i].chart_type, charts[i].kpi, charts[i].group_by) :
                     i \in 1..Len(charts)}
\* lines 71-72: chart_label in existing_labels
LabelTaken(chart_label, charts) == chart_label \in Range(Labels(charts))
\* lines 76-83
ChartConfig(chart_type, kpi, group_by, label, size_col) ==
  [chart_type |-> chart_type, kpi |-> kpi, group_by |-> group_by,
   label |-> IF Truthy(label) THEN label ELSE DefaultLabel(chart_type, kpi, group_by),
   has_size |-> Truthy(size_col),
   size |-> IF Truthy(size_col) THEN size_col ELSE None]

\* dashboard_config.py lines 50-91: "Add Chart" pressed with these widget values.
SubmitChart(chart_type, kpi, group_by, label, size_pick) ==
  LET size_col == IF chart_type = "Bubble" THEN size_pick ELSE None
      w == [chart_type |-> chart_type, kpi |-> kpi, size_col |-> size_col]
      chart_label == IF Truthy(label) THEN label
                     ELSE DefaultLabel(chart_type, kpi, group_by)
  IN /\ form' = w
     /\ IF Stuck(w)
        THEN /\ outcome' = Ran("add_chart", chart_label, "size_equals_kpi")
             /\ rendered' = NoRender
             /\ UNCHANGED session_state
        ELSE IF LabelTaken(chart_label, SelectedCharts)
        THEN /\ outcome' = Ran("add_chart", chart_label, "label_exists")
             /\ rendered' = NoRender
             /\ UNCHANGED session_state
        ELSE /\ Len(SelectedCharts) < MaxCharts
             /\ outcome' = Ran("add_chart", chart_label, "added")
             /\ session_state' = StoreSelectedCharts(Append(SelectedCharts,
                  ChartConfig(chart_type, kpi, group_by, label, size_col)))
             /\ rendered' = PageRun(page, session_state', colors, w)
\* lines 56-58: the size selectbox exists only in a run whose chart type is
\* Bubble, so the user picks a size only if the form showed Bubble before this
\* submit; otherwise the new selectbox holds its first option
SizeOptions(chart_type, options) ==
  IF chart_type = "Bubble" /\ form.chart_type = "Bubble" THEN Selectable(options)
  ELSE {FirstOption(options)}
AddChartWith(types, labels) ==
  /\ page = "dashboard_config"
  /\ HasData
  /\ ~Stuck(form)
  /\ \E chart_type \in types,
        kpi \in Selectable(KpiOptions(StoredFrame)),
        group_by \in Range(StoredFrame.columns),
        label \in labels :
       \E size_pick \in SizeOptions(chart_type, KpiOptions(StoredFrame)) :
       SubmitChart(chart_type, kpi, group_by, label, size_pick)
  /\ UNCHANGED <<page, colors, srv, cleanerVars>>
ConfigAddChart == AddChartWith(PickedTypes, TypedLabels(StoredFrame))
\* the same with no label typed
ConfigAddUnlabelled == AddChartWith(PickedTypes, {<<>>})

\* selected_charts.pop(idx)
Pop(charts, idx) == SubSeq(charts, 1, idx - 1) \o SubSeq(charts, idx + 1, Len(charts))
\* dashboard_config.py lines 118-122
ConfigRemoveChart(idx) ==
  /\ page = "dashboard_config"
  /\ HasData
  /\ ~Stuck(form)
  /\ idx \in 1..Len(SelectedCharts)
  /\ session_state' = StoreSelectedCharts(Pop(SelectedCharts, idx))
  /\ outcome' = Ran("remove_chart", SelectedCharts[idx].label, "done")
  /\ rendered' = PageRun(page, session_state', colors, form)
  /\ UNCHANGED <<page, form, colors, srv, cleanerVars>>

\* dashboard_config.py lines 136-138: SessionManager has no clear_selected_charts,
\* the call raises AttributeError before st.rerun
ConfigReset ==
  /\ page = "dashboard_config"
  /\ HasData
  /\ ~Stuck(form)
  /\ outcome' = Ran("reset", <<>>, "uncaught")
  /\ rendered' = PageRun(page, session_state, colors, form)
  /\ UNCHANGED <<session_state, page, form, colors, srv, cleanerVars>>

\* dashboard_config.py lines 34-38: the user sets the color mode, and the color
\* when the mode is plain (the picker exists only then); the page runs again
PickedColors == {DefaultColor, "#ff0000"}
ConfigPickColors(color_mode, color) ==
  /\ page = "dashboard_config"
  /\ HasData
  /\ LET plain_color == IF color_mode = "plain" THEN color ELSE DefaultColor
         w == [color_mode |-> color_mode, plain_color |-> plain_color,
               chosen |-> Policy(color_mode, plain_color)]
     IN /\ <<w.color_mode, w.plain_color>> # <<colors.color_mode, colors.plain_color>>
        /\ colors' = w
        /\ rendered' = PageRun(page, session_state, w, form)
  /\ outcome' = Ran("pick_colors", <<>>, "done")
  /\ UNCHANGED <<session_state, page, form, srv, cleanerVars>>

\* the model service answers, or the call fails
Replies == {"ok", "failed"}
Text(str) == [raised |-> "none", text |-> str]
\* variant: the failure of the model call leaves the function as an exception
GenerateChartInsightsUncaught(reply) ==
  IF reply = "ok" THEN Text("insights") ELSE [raised |-> "Exception", text |-> ""]
\* utils/gemini_client.py lines 37-71: the whole body is inside try
generate_chart_insights(reply) ==
  IF reply = "ok" THEN Text("insights") ELSE Text("Unable to generate insights")
\* utils/gemini_client.py lines 30-34
infer_kpis_from_Dataframe(reply) ==
  IF reply = "ok" THEN Text("kpis") ELSE Text("Error generating KPIs")
\* exports/html_exporter.py lines 58-82: one chart card per figure, in order,
\* each with the chart and the insight text of its specification
export_dashboard_html(figures, replies) ==
  LET insight == [i \in 1..Len(figures) |-> generate_chart_insights(replies[i])]
      bad == {i \in 1..Len(figures) : insight[i].raised # "none"}
  IN IF bad # {} THEN [raised |-> "Exception", parts |-> <<>>]
     ELSE [raised |-> "none",
           parts |-> [i \in 1..Len(figures) |->
                        [fig |-> figures[i], insight |-> insight[i].text]]]
\* how a call of serve_dashboard_live ends for the page: the server was
\* stopped, no port was found, or the bind error was raised again
ServeEnds == {"stopped", "no_port", "uncaught"}
\* dis_view.py lines 129-155 and 158-174: the page runs, the charts are built
\* again with the same engine and put into the document
ViewExport(site, ends) ==
  /\ page = "dis_view"
  /\ HasData
  /\ SelectedCharts # <<>>
  /\ ViewFigures(session_state).raised = "none"
  /\ \E replies \in [1..Len(SelectedCharts) -> Replies] :
       LET figures == ViewFigures(session_state).figs
           html == export_dashboard_html(figures, replies)
       IN /\ rendered' = [site |-> site, figs |-> figures, raised |-> html.raised,
                          doc |-> html.parts]
          /\ \E end \in ends :
               outcome' = Ran(site, <<>>, IF html.raised = "none" THEN end ELSE "uncaught")
  /\ UNCHANGED <<session_state, page, form, colors, srv, cleanerVars>>
ViewExportHtml == ViewExport("html_export", {"done"})
ViewExportLive == ViewExport("live_export", ServeEnds)

\* app.py lines 28-40: "Generate KPIs" on the home page
HomeGenerateKpis ==
  /\ page = "app"
  /\ HasData
  /\ \E reply \in Replies :
       LET kpi_suggestions == infer_kpis_from_Dataframe(reply)
       IN /\ session_state' = [session_state EXCEPT !.kpi_suggestions = kpi_suggestions.text]
          /\ outcome' = Ran("generate_kpis", <<>>,
                            IF kpi_suggestions.raised = "none" THEN "done" ELSE "uncaught")
  /\ rendered' = NoRender
  /\ UNCHANGED <<page, form, colors, srv, cleanerVars>>

InitSession ==
  /\ df = NoTable
  /\ cleaned_df = NoTable
  /\ same_object = TRUE
  /\ cfg = DefaultConfig
  /\ pc = "idle"
  /\ entry = NoTable
  /\ before = NoTable
  /\ steps = <<>>
  /\ outl = NoLoop
  /\ session_state = InitialSession
  /\ page = "app"
  /\ form = InitialForm
  /\ outcome = NoRun
  /\ colors = InitialColors
  /\ rendered = NoRender
  /\ srv = IdleServer

NextSession ==
  \/ \E f \in SessionFiles : HomeUpload(f)
  \/ HomeResetData
  \/ \E f \in SessionFiles : ConfigUpload(f)
  \/ \E p \in Pages : Navigate(p)
  \/ ConfigAddChart
  \/ \E idx \in 1..MaxCharts : ConfigRemoveChart(idx)
  \/ ConfigReset

SpecSession == InitSession /\ [][NextSession]_vars

\* the session with the color widgets, the exports and the KPI suggestions
NextView ==
  \/ \E f \in SessionFiles : HomeUpload(f)
  \/ HomeResetData
  \/ \E p \in Pages : Navigate(p)
  \/ ConfigAddUnlabelled
  \/ \E color_mode \in {"plain", "randomized"}, color \in PickedColors :
       ConfigPickColors(color_mode, color)
  \/ ViewExportHtml
  \/ ViewExportLive
  \/ HomeGenerateKpis

SpecView == InitSession /\ [][NextView]_vars

-----------------------------------------------------------------------------
(* KPIEngine.create_chart called on a stored table with one specification.  *)
MaxChartRows == 3
ChartTables ==
  Tables(<<ColumnSpec(<<"r">>, "object", {Str("x"), Str("y")}),
           ColumnSpec(<<"s">>, "int64", {Num(-1), Num(1), Num(2)})>>, MaxChartRows)
   \ {t \in Tables(<<ColumnSpec(<<"r">>, "object", {Str("x"), Str("y")}),
                     ColumnSpec(<<"s">>, "int64", {Num(-1), Num(1), Num(2)})>>, MaxChartRows) :
        NRows(t) = 0}
\* the specifications: a kpi of the table or one that is not, every chart
\* type, no grouping (None, or the string "None") or grouping by r
ChartSpecs ==
  {ChartConfig(chart_type, kpi, group_by, <<>>, None) :
     chart_type \in Range(CHART_TYPES),
     kpi \in {<<"s">>, <<"z">>},
     group_by \in {None, <<"N", "o", "n", "e">>, <<"r">>}}
InitCharts ==
  /\ df = NoTable
  /\ cleaned_df = NoTable
  /\ same_object = TRUE
  /\ cfg = DefaultConfig
  /\ pc = "idle"
  /\ entry = NoTable
  /\ before = NoTable
  /\ steps = <<>>
  /\ outl = NoLoop
  /\ \E t \in ChartTables, c \in ChartSpecs :
       session_state = [InitialSession EXCEPT !.cleaned_df = Some(t),
                                              !.selected_charts = <<c>>]
  /\ page = "dis_view"
  /\ form = InitialForm
  /\ outcome = NoRun
  /\ \E color_mode \in {"plain", "randomized"} :
       colors = [InitialColors EXCEPT !.color_mode = color_mode]
  /\ rendered = NoRender
  /\ srv = IdleServer
\* engine = KPIEngine(df, color_mode, plain_color); engine.create_chart(...)
EngineCreateChart ==
  /\ rendered = NoRender
  /\ LET c == SelectedCharts[1]
         fig == CreateChart(StoredFrame, c.kpi, c.chart_type, c.group_by, c.size,
                            Policy(colors.color_mode, colors.plain_color))
     IN rendered' = [site |-> "create_chart", figs |-> <<fig>>,
                     raised |-> fig.raised, doc |-> <<>>]
  /\ outcome' = Ran("create_chart", SelectedCharts[1].label, "done")
  /\ UNCHANGED <<session_state, page, form, colors, srv, cleanerVars>>
SpecCharts == InitCharts /\ [][EngineCreateChart]_vars

-----------------------------------------------------------------------------
(* KPIEngine._apply_color_mode on the traces chart construction built.      *)
(* A color is unset (None), a color string construction gave, a generated   *)
(* color, an array of numbers (color_by on a numeric column), or for the    *)
(* slices of a pie a list of colors.                                        *)
Unset == [kind |-> "unset"]
Given(text) == [kind |-> "given", text |-> text]
Generated(chars) == [kind |-> "generated", chars |-> chars]
Array(values) == [kind |-> "array", values |-> values]
List(items) == [kind |-> "list", items |-> items]
\* which color attributes the traces of a chart type have: hasattr(trace,
\* "marker"), hasattr(trace.marker, "colors" / "color"), hasattr(trace, "line")
TraceShape(chart_type) ==
  IF chart_type = "Pie" THEN [marker |-> "colors", line |-> FALSE]
  ELSE IF chart_type = "Heatmap" THEN [marker |-> "none", line |-> FALSE]
  ELSE IF chart_type \in {"Bar", "Histogram"} THEN [marker |-> "color", line |-> FALSE]
  ELSE [marker |-> "color", line |-> TRUE]
Trace(shape, marker_value, line_value, labels) ==
  [marker |-> shape.marker, marker_value |-> marker_value,
   line |-> shape.line, line_value |-> line_value, labels |-> labels]
\* "not value": None and the empty list are false, a string of a color is
\* true, an array of one number is true when the number is not 0, the truth
\* value of a longer array raises ValueError
TruthRaises(value) == value.kind = "array" /\ Len(value.values) > 1
IsSet(value) ==
  IF value.kind = "unset" THEN FALSE
  ELSE IF value.kind = "list" THEN value.items # <<>>
  ELSE IF value.kind = "array" THEN value.values # <<>> /\ value.values[1] # 0
  ELSE TRUE
\* _random_color, lines 76-78: f"#{n:06x}" of n = random.randint(0, 0xFFFFFF)
RandomMax == 16777215
HexDigit == <<"0", "1", "2", "3", "4", "5", "6", "7", "8", "9", "a", "b", "c", "d", "e", "f">>
RECURSIVE ToHex(_)
ToHex(n) == IF n < 16 THEN <<HexDigit[n + 1]>> ELSE ToHex(n \div 16) \o <<HexDigit[(n % 16) + 1]>>
RECURSIVE ZeroPad(_, _)
ZeroPad(chars, width) == IF Len(chars) >= width THEN chars ELSE ZeroPad(<<"0">> \o chars, width)
RandomColor(n) == Generated(<<"#">> \o ZeroPad(ToHex(n), 6))
\* the values random.randint returns in the runs of the model
RandomDraws == {0, 255, 1048576, RandomMax}
\* variant: plain mode sets the marker color and leaves the line color
PlainTraceMarkerOnly(trace, plain_color) ==
  IF trace.marker = "color" THEN [trace EXCEPT !.marker_value = Given(plain_color)] ELSE trace
\* lines 81-88, one trace in plain mode
PlainTrace(trace, plain_color) ==
  LET marked ==
        IF trace.marker = "colors"
        THEN [trace EXCEPT !.marker_value =
                IF IsSet(trace.marker_value)
                THEN List([i \in 1..Len(trace.marker_value.items) |-> Given(plain_color)])
                ELSE List(<<Given(plain_color)>>)]
        ELSE IF trace.marker = "color"
        THEN [trace EXCEPT !.marker_value = Given(plain_color)]
        ELSE trace
  IN IF trace.line THEN [marked EXCEPT !.line_value = Given(plain_color)] ELSE marked
\* lines 89-98, one trace in randomized mode; draw gives the numbers of
\* random.randint for the slices, the marker (1) and the line (2)
RandomizedRaises(trace) == trace.marker = "color" /\ TruthRaises(trace.marker_value)
RandomizedTrace(trace, draw) ==
  LET marked ==
        IF trace.marker = "colors"
        THEN IF IsSet(trace.marker_value) THEN trace
             ELSE [trace EXCEPT !.marker_value =
                     List([i \in 1..trace.labels |-> RandomColor(draw[i])])]
        ELSE IF trace.marker = "color" /\ ~IsSet(trace.marker_value)
        THEN [trace EXCEPT !.marker_value = RandomColor(draw[1])]
        ELSE trace
  IN IF trace.line /\ ~IsSet(trace.line_value)
     THEN [marked EXCEPT !.line_value = RandomColor(draw[2])]
     ELSE marked
MaxTraces == 2
MaxLabels == 2
ConstructedMarkers(shape) ==
  IF shape.marker = "colors"
  THEN {Unset, List(<<Given("#636efa"), Given("#ef553b")>>)}
  ELSE IF shape.marker = "color"
  THEN {Unset, Given("#636efa"), Array(<<0>>), Array(<<1, 2>>)}
  ELSE {Unset}
ConstructedLines(shape) == IF shape.line THEN {Unset, Given("#636efa")} ELSE {Unset}
ConstructedTraces(chart_type) ==
  {Trace(TraceShape(chart_type), m, l, MaxLabels) :
     m \in ConstructedMarkers(TraceShape(chart_type)),
     l \in ConstructedLines(TraceShape(chart_type))}
InitColors ==
  /\ df = NoTable
  /\ cleaned_df = NoTable
  /\ same_object = TRUE
  /\ cfg = DefaultConfig
  /\ pc = "idle"
  /\ entry = NoTable
  /\ before = NoTable
  /\ steps = <<>>
  /\ outl = NoLoop
  /\ session_state = InitialSession
  /\ page = "dis_view"
  /\ form = InitialForm
  /\ outcome = NoRun
  /\ \E color_mode \in {"plain", "randomized"}, plain_color \in PickedColors :
       colors = [InitialColors EXCEPT !.color_mode = color_mode,
                                      !.plain_color = IF color_mode = "plain" THEN plain_color
                                                      ELSE DefaultColor]
  /\ \E chart_type \in Range(CHART_TYPES), n \in 1..MaxTraces :
       \E data \in [1..n -> ConstructedTraces(chart_type)] :
         rendered = [site |-> "constructed",
                     figs |-> <<[kind |-> chart_type, data |-> data, built |-> data]>>,
                     raised |-> "none", doc |-> <<>>]
  /\ srv = IdleServer
\* return self._apply_color_mode(fig), lines 80-99 and 140
ApplyColorMode ==
  /\ rendered.site = "constructed"
  /\ LET fig == rendered.figs[1]
     IN IF colors.color_mode = "plain"
        THEN rendered' = [rendered EXCEPT
               !.site = "apply_color_mode",
               !.figs = <<[fig EXCEPT !.data = [i \in 1..Len(fig.data) |->
                                         PlainTrace(fig.data[i], colors.plain_color)]]>>]
        ELSE IF \E i \in 1..Len(fig.data) : RandomizedRaises(fig.data[i])
        THEN rendered' = [rendered EXCEPT !.site = "apply_color_mode",
                                          !.raised = "ValueError"]
        ELSE \E draw \in [1..Len(fig.data) -> [1..2 -> RandomDraws]] :
               rendered' = [rendered EXCEPT
                 !.site = "apply_color_mode",
                 !.figs = <<[fig EXCEPT !.data = [i \in 1..Len(fig.data) |->
                                           RandomizedTrace(fig.data[i], draw[i])]]>>]
  /\ outcome' = Ran("apply_color_mode", <<>>, "done")
  /\ UNCHANGED <<session_state, page, form, colors, srv, cleanerVars>>
SpecColors == InitColors /\ [][ApplyColorMode]_vars

-----------------------------------------------------------------------------
(* exports/live_server.py: serve_dashboard_live from the temporary          *)
(* directory on, one action per step and one per bind attempt.              *)
FirstPort == 8000
max_attempts == 10
\* the one errno the loop takes for "port in use" (line 64)
RetryErrno == 48
\* the ports of the machine that other programs may hold
LastPort == 8011
Ports == FirstPort..LastPort
\* errno of the OSError a bind to a port in use gets: EADDRINUSE is 48 on
\* macOS and the BSDs, 98 on Linux, 10048 (WSAEADDRINUSE) on Windows
AddrInUseCodes == {48, 98, 10048}
InitServe ==
  /\ df = NoTable
  /\ cleaned_df = NoTable
  /\ same_object = TRUE
  /\ cfg = DefaultConfig
  /\ pc = "idle"
  /\ entry = NoTable
  /\ before = NoTable
  /\ steps = <<>>
  /\ outl = NoLoop
  /\ session_state = InitialSession
  /\ page = "dis_view"
  /\ form = InitialForm
  /\ outcome = NoRun
  /\ colors = InitialColors
  /\ rendered = NoRender
  /\ \E in_use \in SUBSET Ports, code \in AddrInUseCodes :
       srv = [IdleServer EXCEPT !.pc = "called", !.in_use = in_use, !.EADDRINUSE = code]
\* lines 42-58: the document is written, port = 8000, os.chdir(temp_dir)
ServePrepare ==
  /\ srv.pc = "called"
  /\ srv' = [srv EXCEPT !.pc = "bind", !.port = FirstPort, !.attempt = 0, !.cwd = "temp"]
  /\ UNCHANGED <<cleanerVars, sessionVars, viewVars>>
\* lines 59-70: one pass of "for attempt in range(max_attempts)"
ServeBind ==
  /\ srv.pc = "bind"
  /\ srv.attempt < max_attempts
  /\ LET tried == Append(srv.tried, srv.port)
     IN IF srv.port \notin srv.in_use
        THEN srv' = [srv EXCEPT !.tried = tried, !.bound = srv.port, !.pc = "bound"]
        ELSE IF srv.EADDRINUSE = RetryErrno
        THEN IF srv.attempt = max_attempts - 1
             THEN srv' = [srv EXCEPT !.tried = tried, !.port = srv.port + 1,
                                     !.reported = "no_port", !.pc = "returned"]
             ELSE srv' = [srv EXCEPT !.tried = tried, !.port = srv.port + 1,
                                     !.attempt = srv.attempt + 1]
        ELSE srv' = [srv EXCEPT !.tried = tried, !.raised = "OSError", !.pc = "raised"]
  /\ UNCHANGED <<cleanerVars, sessionVars, viewVars>>
\* lines 75-93: the URL, the browser thread, st.success, serve_forever
ServeStart ==
  /\ srv.pc = "bound"
  /\ srv' = [srv EXCEPT !.url = srv.port, !.browser_thread = TRUE,
                        !.reported = "served", !.pc = "serving"]
  /\ UNCHANGED <<cleanerVars, sessionVars, viewVars>>
\* lines 95-98: KeyboardInterrupt ends serve_forever, finally restores the cwd
ServeInterrupt ==
  /\ srv.pc = "serving"
  /\ srv' = [srv EXCEPT !.reported = "stopped", !.cwd = "original", !.pc = "returned"]
  /\ UNCHANGED <<cleanerVars, sessionVars, viewVars>>
NextServe == ServePrepare \/ ServeBind \/ ServeStart \/ ServeInterrupt
SpecServe == InitServe /\ [][NextServe]_vars

-----------------------------------------------------------------------------
(* _clean_column_names applied to a table and then to its own output. *)
Names == UNION {[1..k -> NameChars] : k \in 0..MaxNameLen}
NameTables ==
  {[columns |-> columns, dtypes |-> [j \in 1..Len(columns) |-> "object"], rows |-> <<>>] :
     columns \in UNION {[1..k -> Names] : k \in 1..MaxNameCols}}
InitNames ==
  /\ df \in NameTables
  /\ cfg = DefaultConfig
  /\ cleaned_df = df
  /\ same_object = TRUE
  /\ pc = "names"
  /\ entry = df
  /\ before = df
  /\ steps = <<>>
  /\ outl = NoLoop
  /\ session_state = InitialSession
  /\ page = "none"
  /\ form = InitialForm
  /\ outcome = NoRun
  /\ colors = InitialColors
  /\ rendered = NoRender
  /\ srv = IdleServer
NormalizeLabels ==
  /\ pc \in {"names", "named_once"}
  /\ pc' = IF pc = "names" THEN "named_once" ELSE "named_twice"
  /\ LET alias == FrameCopy(same_object)
         t == CleanColumnNames(cleaned_df)
     IN /\ cleaned_df' = t
        /\ same_object' = alias
        /\ df' = WriteThrough(alias, df, t)
        /\ before' = cleaned_df
        /\ steps' = Append(steps, "_clean_column_names")
  /\ UNCHANGED <<cfg, entry, outl, sessionVars, viewVars, srv>>
SpecNames == InitNames /\ [][NormalizeLabels]_vars

-----------------------------------------------------------------------------
(* The claims. *)
Returned == pc = "return"
AllSteps == /\ cfg.clean_columns /\ cfg.handle_duplicates /\ cfg.handle_missing
            /\ cfg.optimize_types /\ cfg.remove_outliers
Distinct(xs) == \A i, j \in 1..Len(xs) : i # j => xs[i] # xs[j]

\* C1: for every input table with at least one row and every configuration,
\* the table clean_data returns has no more rows than the input and exactly
\* as many columns as the input.
C1_NoMoreRowsSameColumns ==
  (Returned /\ NRows(entry) >= 1) =>
    (NRows(cleaned_df) <= NRows(entry) /\ NCols(cleaned_df) = NCols(entry))
C1_Witness ==
  Returned /\ AllSteps /\ NRows(cleaned_df) < NRows(entry) /\ NCols(entry) = 2

\* C2: with duplicate removal enabled and outlier removal disabled, the number
\* of rows clean_data returns is the number of distinct rows of the input.
C2_OneRowPerGroup ==
  (Returned /\ cfg.handle_duplicates /\ ~cfg.remove_outliers) =>
    NRows(cleaned_df) = Cardinality(Range(entry.rows))
C2_Witness ==
  /\ Returned
  /\ cfg = DefaultConfig
  /\ NRows(entry) = 2
  /\ NRows(cleaned_df) = 1

\* C3: clean_data never mutates its input: at every point of a call, also
\* after it returned or raised, the caller's table has the column names, rows
\* and column types it had when the call was made.
C3_InputUnchanged == df = entry
C3_Witness ==
  /\ Returned
  /\ cleaned_df.columns # entry.columns
  /\ cleaned_df.dtypes # entry.dtypes
  /\ cleaned_df.rows # entry.rows
  /\ df = entry

\* C4: clean_data called on a table with zero rows fails with the empty-input
\* error before any cleaning step runs, and returns no table.
C4_EmptyInputRaisesFirst ==
  NRows(entry) = 0 => (pc \in {"call", "raised"} /\ steps = <<>> /\ cleaned_df = entry)
C4_Witness == NRows(entry) = 0 /\ pc = "raised" /\ AllSteps

\* C5: after clean_data with column normalization enabled, the column names of
\* the returned table are pairwise distinct, for every input table whose
\* column names are pairwise distinct.
C5_ReturnedNamesDistinct ==
  (Returned /\ cfg.clean_columns /\ Distinct(entry.columns)) => Distinct(cleaned_df.columns)

\* C6: column normalization is idempotent: applying _clean_column_names to its
\* own output yields the names that applying it once yields.
C6_NormalizationIdempotent ==
  pc = "named_twice" => cleaned_df.columns = before.columns
C6_Witness ==
  /\ pc = "named_twice"
  /\ before.columns # entry.columns
  /\ \E j \in 1..NCols(entry) : Len(before.columns[j]) < Len(entry.columns[j])
  /\ \E j \in 1..NCols(entry) : "_" \in Range(before.columns[j])

\* the narrowest of the three signed widths whose range contains c_min..c_max
SmallestWidth(c_min, c_max) ==
  IF I8Min <= c_min /\ c_max <= I8Max THEN "int8"
  ELSE IF I16Min <= c_min /\ c_max <= I16Max THEN "int16"
  ELSE IF I32Min <= c_min /\ c_max <= I32Max THEN "int32"
  ELSE "int64"
\* the state right after _optimize_data_types ran in this call
TypesJustRan ==
  /\ pc = "remove_outliers"
  /\ cfg.optimize_types
  /\ NRows(before) >= 1
IntValues(t, j) == [i \in 1..NRows(t) |-> t.rows[i][j].x2 \div 2]

\* C7: integer downcasting picks, for every 64-bit integer column, the smallest
\* of the 8-, 16- and 32-bit signed widths whose range contains the column's
\* minimum and maximum, also when one of them equals a tier's limit.
C7_SmallestContainingWidth ==
  TypesJustRan =>
    \A j \in 1..NCols(before) :
      before.dtypes[j] = "int64" =>
        cleaned_df.dtypes[j] =
          SmallestWidth(MinOf(IntValues(before, j)), MaxOf(IntValues(before, j)))

\* C8: integer downcasting never changes a value: for every integer column and
\* every row, the value after _optimize_data_types is the value before it.
C8_DowncastKeepsValues ==
  TypesJustRan =>
    \A j \in 1..NCols(before) :
      before.dtypes[j] = "int64" =>
        \A i \in 1..NRows(before) : cleaned_df.rows[i][j] = before.rows[i][j]
C8_Witness ==
  /\ TypesJustRan
  /\ before.dtypes[1] = "int64"
  /\ cleaned_df.dtypes[1] = "int16"
  /\ \E i \in 1..NRows(before) : before.rows[i][1] = Num(-129)
  /\ \E i \in 1..NRows(before) : before.rows[i][1] = Num(127)

Within(c, fence) == c.na \/ ~fence.defined \/ (fence.lo <= 8 * c.x2 /\ 8 * c.x2 <= fence.hi)
IqrRun == cfg.remove_outliers /\ cfg.outlier_method = "iqr"

\* C9 as stated: after IQR outlier removal with threshold k, no retained value
\* of a numeric column lies outside [Q1 - k*IQR, Q3 + k*IQR] of that column,
\* the quartiles being those of the column after the removal.
C9_WithinFencesOfResult ==
  (Returned /\ IqrRun) =>
    \A j \in Range(NumericCols(cleaned_df)) :
      \A i \in 1..NRows(cleaned_df) :
        Within(cleaned_df.rows[i][j],
               IqrFence(ColumnOf(cleaned_df, j), cfg.outlier_threshold))
\* C9 amended: no retained value of a numeric column lies outside the
\* [Q1 - k*IQR, Q3 + k*IQR] computed for that column when the column was
\* checked, from the rows that were left after the columns checked before it;
\* and when clean_data returns every numeric column has been checked.
C9_WithinFencesUsed ==
  IqrRun =>
    /\ \A n \in 1..Len(outl.fences) :
         LET f == outl.fences[n]
         IN /\ f.fence = IqrFence([i \in 1..Len(f.rows) |-> f.rows[i][f.col]],
                                  cfg.outlier_threshold)
            /\ \A i \in 1..NRows(cleaned_df) : Within(cleaned_df.rows[i][f.col], f.fence)
    /\ Returned =>
         [n \in 1..Len(outl.fences) |-> outl.fences[n].col] = NumericCols(cleaned_df)
C9_Witness ==
  /\ Returned
  /\ IqrRun
  /\ cfg.outlier_threshold = DefaultThreshold
  /\ NRows(cleaned_df) < NRows(entry)
  /\ NRows(cleaned_df) >= 2
  /\ Len(outl.fences) = 2

\* C10: the chart list never holds two charts with the same label, and an add
\* whose label (typed, or the default one) equals a label of the list is
\* rejected and leaves the list unchanged.
C10_LabelsUnique ==
  [][/\ Distinct(Labels(session_state'.selected_charts))
     /\ (outcome'.run = "add_chart" /\ outcome'.label \in Range(Labels(SelectedCharts)))
          => session_state'.selected_charts = SelectedCharts]_vars
C10_Witness ==
  /\ outcome.run = "add_chart"
  /\ outcome.result = "label_exists"
  /\ Len(SelectedCharts) = 2
  /\ SelectedCharts[1].label = <<"Q">>
  /\ outcome.label = SelectedCharts[2].label
  /\ SelectedCharts[2].label = DefaultLabel("Bar", SelectedCharts[2].kpi, SelectedCharts[2].group_by)


\* C11: whatever charts were added, the chart list holds no Bubble
\* specification whose size column is its kpi column.
C11_BubbleSizeDiffersFromKpi ==
  \A i \in 1..Len(SelectedCharts) :
    SelectedCharts[i].chart_type = "Bubble" => SelectedCharts[i].size # SelectedCharts[i].kpi
\* a Bubble chart is in the list and a later submission with size = kpi was stopped
C11_Witness ==
  /\ \E i \in 1..Len(SelectedCharts) : SelectedCharts[i].chart_type = "Bubble"
  /\ outcome.result = "size_equals_kpi"

\* C12: after either reset control (home "Reset Data", configuration "Reset")
\* the chart list is empty.
C12_ResetEmptiesCharts ==
  outcome.run \in {"reset_data", "reset"} => SelectedCharts = <<>>

\* C13: once a color policy was selected, every chart a page or an export
\* builds carries that policy.
C13_ChosenColorsEverywhere ==
  colors.chosen # NoChoice =>
    \A i \in 1..Len(rendered.figs) : rendered.figs[i].policy = colors.chosen

AttemptPorts == FirstPort..(FirstPort + max_attempts - 1)
ServeOver == srv.pc \in {"bound", "serving", "returned", "raised"}
\* C14: the live server makes at most ten attempts, on no port above 8009, and
\* binds the first port from 8000 upward that is free.
C14_FirstFreePortFrom8000 ==
  /\ Len(srv.tried) <= max_attempts
  /\ \A i \in 1..Len(srv.tried) : srv.tried[i] \in AttemptPorts
  /\ ServeOver /\ AttemptPorts \ srv.in_use # {} =>
       /\ srv.bound \in AttemptPorts \ srv.in_use
       /\ \A q \in AttemptPorts \ srv.in_use : srv.bound <= q

\* C15: with every port 8000..8009 in use the call reports that no port was
\* found, starts no server and no browser thread, raises nothing and returns.
C15_NoPortReported ==
  ServeOver /\ AttemptPorts \subseteq srv.in_use =>
    /\ srv.pc = "returned"
    /\ srv.reported = "no_port"
    /\ srv.bound = 0
    /\ ~srv.browser_thread
    /\ srv.raised = "none"

\* C16: a failure of cleaning or of chart construction is caught where the
\* page calls it: no upload and no page run ends in an uncaught exception.
C16_FailuresCaught ==
  /\ outcome.run = "upload" => outcome.result \notin {"uncaught", "read_uncaught"}
  /\ rendered.raised = "none"

\* what read_file is specified to reject: a type other than CSV / Excel, a file
\* that cannot be parsed, a table without rows or columns
FailsValidation(f) ==
  \/ f.ext \notin {"csv", "xlsx", "xls"}
  \/ ~f.parses
  \/ f.frame.rows = <<>>
  \/ f.frame.columns = <<>>
\* C17: an upload that fails validation ends at the error of read_file:
\* clean_data is not run and nothing is stored.
C17_InvalidUploadStoresNothing ==
  [][\A f \in SessionFiles :
       (HomeUpload(f) \/ ConfigUpload(f)) /\ FailsValidation(f) =>
         /\ outcome'.result \in {"read_error", "read_uncaught"}
         /\ session_state' = session_state
         /\ ~HasData']_vars
\* an upload was stopped by read_file and the session holds no table
C17_Witness ==
  /\ outcome.run = "upload"
  /\ outcome.result \in {"read_error", "read_uncaught"}
  /\ session_state = InitialSession

\* C18: a failure of the language model leaves neither function as an
\* exception: each returns an error text, and the exported document still
\* holds every chart of the list, in order.
C18_ModelFailureContained ==
  /\ outcome.run = "generate_kpis" =>
       /\ outcome.result = "done"
       /\ session_state.kpi_suggestions \in {"kpis", "Error generating KPIs"}
  /\ rendered.site \in {"html_export", "live_export"} =>
       /\ rendered.raised = "none"
       /\ Len(rendered.doc) = Len(SelectedCharts)
       /\ \A i \in 1..Len(rendered.doc) :
            /\ rendered.doc[i].fig = ViewChart(session_state, SelectedCharts[i])
            /\ rendered.doc[i].insight \in {"insights", "Unable to generate insights"}
\* a document of two charts was exported while the model call failed for the first
C18_Witness ==
  /\ rendered.site = "html_export"
  /\ Len(rendered.doc) = 2
  /\ rendered.doc[1].insight = "Unable to generate insights"
  /\ rendered.doc[2].insight = "insights"

ChartCall == SelectedCharts[1]
ChartBuilt == rendered.site = "create_chart"
\* the rows of group key on which the kpi has a value
GroupRows(t, kpi, group_by, key) ==
  {i \in 1..NRows(t) : /\ t.rows[i][ColumnIndex(t, group_by)] = key
                       /\ ~t.rows[i][ColumnIndex(t, kpi)].na}
GroupKeys(t, group_by) ==
  {t.rows[i][ColumnIndex(t, group_by)] : i \in 1..NRows(t)}
\* C19: a Bar, Line, Area or Scatter chart with a group-by column plots one
\* point per distinct value of that column, its y the mean of the kpi over
\* the rows of the group.
C19_OnePointPerGroupAtMean ==
  /\ ChartBuilt
  /\ ChartCall.chart_type \in {"Bar", "Line", "Area", "Scatter"}
  /\ ChartCall.group_by = <<"r">>
  /\ ChartCall.kpi = <<"s">>
  => LET fig == rendered.figs[1]
         keys == GroupKeys(StoredFrame, <<"r">>)
     IN /\ fig.raised = "none"
        /\ Len(fig.points) = Cardinality(keys)
        /\ \A key \in keys :
             \E n \in 1..Len(fig.points) :
               /\ fig.points[n].x = key
               /\ fig.points[n].y.den # 0
               /\ fig.points[n].y.num * Cardinality(GroupRows(StoredFrame, <<"s">>, <<"r">>, key))
                    = fig.points[n].y.den
                        * SumSeq(Values2([i \in 1..NRows(StoredFrame) |->
                            IF i \in GroupRows(StoredFrame, <<"s">>, <<"r">>, key)
                            THEN StoredFrame.rows[i][ColumnIndex(StoredFrame, <<"s">>)]
                            ELSE NaN]))

\* C20: a Pie chart whose group-by is unset (None, or the string "None")
\* raises nothing for any kpi and is the placeholder figure: an annotation
\* that is not empty, no trace.
C20_PieWithoutGroupIsPlaceholder ==
  /\ ChartBuilt
  /\ ChartCall.chart_type = "Pie"
  /\ ChartCall.group_by \in {None, <<"N", "o", "n", "e">>}
  => /\ rendered.raised = "none"
     /\ rendered.figs[1].kind = "placeholder"
     /\ rendered.figs[1].points = <<>>
     /\ rendered.figs[1].annotation # ""
\* the placeholder was built for the string "None" and a kpi the table lacks
C20_Witness ==
  /\ ChartBuilt
  /\ ChartCall.chart_type = "Pie"
  /\ ChartCall.group_by = <<"N", "o", "n", "e">>
  /\ ChartCall.kpi = <<"z">>
  /\ rendered.figs[1].kind = "placeholder"

\* C21: a Bubble chart with secondary_kpi unset and a numeric kpi raises
\* nothing and takes kpi as the secondary column: y and size are both kpi.
C21_BubbleDefaultsToKpi ==
  /\ ChartBuilt
  /\ ChartCall.chart_type = "Bubble"
  /\ ChartCall.size = None
  /\ IsNumericColumn(StoredFrame, ChartCall.kpi)
  => /\ rendered.raised = "none"
     /\ rendered.figs[1].y_col = ChartCall.kpi
     /\ rendered.figs[1].size_col = ChartCall.kpi

ColorsApplied == rendered.site = "apply_color_mode"
\* C22: in plain mode, after create_chart, every trace has its marker color
\* and its line color equal to the configured color, whatever the chart
\* type; a list of slice colors holds that color in every entry.
C22_PlainColorsEveryTrace ==
  ColorsApplied /\ colors.color_mode = "plain" =>
    /\ rendered.raised = "none"
    /\ \A i \in 1..Len(rendered.figs[1].data) :
         LET trace == rendered.figs[1].data[i]
         IN /\ trace.marker = "color" => trace.marker_value = Given(colors.plain_color)
            /\ trace.line => trace.line_value = Given(colors.plain_color)
            /\ trace.marker = "colors" =>
                 /\ trace.marker_value.kind = "list"
                 /\ trace.marker_value.items # <<>>
                 /\ \A j \in 1..Len(trace.marker_value.items) :
                      trace.marker_value.items[j] = Given(colors.plain_color)
\* plain mode was applied to a chart of two traces whose marker held an array
\* of numbers and whose line color was set by construction
C22_Witness ==
  /\ ColorsApplied
  /\ colors.color_mode = "plain"
  /\ colors.plain_color = "#ff0000"
  /\ Len(rendered.figs[1].data) = 2
  /\ rendered.figs[1].built[1].marker_value = Array(<<1, 2>>)
  /\ rendered.figs[1].built[2].line_value = Given("#636efa")
  /\ rendered.figs[1].data[2].line_value = Given("#ff0000")

RECURSIVE HexValue(_)
HexValue(chars) ==
  IF chars = <<>> THEN 0
  ELSE 16 * HexValue(SubSeq(chars, 1, Len(chars) - 1))
       + (CHOOSE d \in 0..15 : HexDigit[d + 1] = chars[Len(chars)])
\* "#" and exactly six hex digits of a value in 0..0xFFFFFF
WellFormedColor(value) ==
  /\ value.kind = "generated"
  /\ Len(value.chars) = 7
  /\ value.chars[1] = "#"
  /\ \A k \in 2..7 : value.chars[k] \in Range(HexDigit)
  /\ HexValue(SubSeq(value.chars, 2, 7)) \in 0..RandomMax
\* a color that was set is kept, one that was unset is generated
KeptOrGenerated(was, is) ==
  IF was.kind = "unset" THEN WellFormedColor(is) ELSE is = was
\* C23: in randomized mode a trace color that construction set is unchanged,
\* only a color left unset receives a generated color, and every generated
\* color is "#" and six hex digits of a value in 0..0xFFFFFF.
C23_RandomizedKeepsExplicit ==
  ColorsApplied /\ colors.color_mode = "randomized" =>
    /\ rendered.raised = "none"
    /\ \A i \in 1..Len(rendered.figs[1].data) :
         LET was == rendered.figs[1].built[i]
             is == rendered.figs[1].data[i]
         IN /\ was.marker = "color" => KeptOrGenerated(was.marker_value, is.marker_value)
            /\ was.line => KeptOrGenerated(was.line_value, is.line_value)
            /\ was.marker = "colors" =>
                 IF was.marker_value.kind = "unset"
                 THEN /\ is.marker_value.kind = "list"
                      /\ \A j \in 1..Len(is.marker_value.items) :
                           WellFormedColor(is.marker_value.items[j])
                 ELSE is.marker_value = was.marker_value

StepOrder == <<"_clean_column_names", "_handle_duplicates", "_handle_missing_values",
               "_optimize_data_types", "_handle_outliers">>
StepEnabled == <<cfg.clean_columns, cfg.handle_duplicates, cfg.handle_missing,
                 cfg.optimize_types, cfg.remove_outliers>>
StepRank(name) == CHOOSE k \in 1..Len(StepOrder) : StepOrder[k] = name
EnabledSteps == SelectSeq(StepOrder, LAMBDA name : StepEnabled[StepRank(name)])
\* what a step makes of the table it is given (outlier removal starts its
\* loop over the columns on that table)
StepResult(name, t) ==
  IF name = "_clean_column_names" THEN CleanColumnNames(t)
  ELSE IF name = "_handle_duplicates" THEN HandleDuplicates(t)
  ELSE IF name = "_handle_missing_values" THEN HandleMissingValues(t)
  ELSE IF name = "_optimize_data_types" THEN OptimizeDataTypes(t)
  ELSE t
\* C24: the enabled steps run in the order column normalization, duplicate
\* removal, missing-value handling, type optimization, outlier removal, each
\* on the output of the step before it; a disabled step is skipped and the
\* order of the others stays.
C24_FixedStepOrder ==
  /\ [](/\ \A i \in 1..Len(steps) : steps[i] = EnabledSteps[i]
        /\ Returned => steps = EnabledSteps)
  /\ [][steps' # steps =>
          /\ steps' = Append(steps, EnabledSteps[Len(steps) + 1])
          /\ before' = cleaned_df
          /\ pc' # "raised" => cleaned_df' = StepResult(EnabledSteps[Len(steps) + 1], cleaned_df)]_vars
\* a run with duplicate removal and type optimization disabled returned
C24_Witness ==
  /\ Returned
  /\ steps = <<"_clean_column_names", "_handle_missing_values", "_handle_outliers">>
  /\ cleaned_df # entry

\* the rows a column's test keeps, computed from the rows it was given
KeptRows(check) ==
  LET col == [i \in 1..Len(check.rows) |-> check.rows[i][check.col]]
      mask == OutlierMask(col, cfg.outlier_method, cfg.outlier_threshold)
  IN SelectRows(check.rows, [i \in 1..Len(check.rows) |-> ~mask[i]], 1)
\* C25: outlier removal is cumulative: the numeric columns are checked one
\* after another, the bounds of a column are computed on the rows the checks
\* before it kept, and a removed row is not in the result.
C25_CumulativeRemoval ==
  \A n \in 1..Len(outl.fences) :
    /\ n < Len(outl.fences) => outl.fences[n + 1].rows = KeptRows(outl.fences[n])
    /\ n = Len(outl.fences) => cleaned_df.rows = KeptRows(outl.fences[n])
    /\ Len(cleaned_df.rows) <= Len(KeptRows(outl.fences[n]))
    /\ \A i \in 1..Len(cleaned_df.rows) :
         \E k \in 1..Len(KeptRows(outl.fences[n])) :
           KeptRows(outl.fences[n])[k] = cleaned_df.rows[i]
\* the first column's test removed a row and the second column was checked
\* on the rows that were left
C25_Witness ==
  /\ Returned
  /\ Len(outl.fences) = 2
  /\ Len(outl.fences[2].rows) < Len(outl.fences[1].rows)
  /\ Len(cleaned_df.rows) < Len(outl.fences[2].rows)

MissingJustRan ==
  /\ pc = "optimize_types"
  /\ steps # <<>>
  /\ steps[Len(steps)] = "_handle_missing_values"
\* how often text w occurs in column j of table t
Occurrences(t, j, w) ==
  Cardinality({i \in 1..NRows(t) : ~t.rows[i][j].na /\ t.rows[i][j].s = w})
\* C26: after missing-value handling no text column holds a missing value:
\* a missing entry became the column's most frequent non-missing value, or
\* "Unknown" when the column had none, and the other entries are unchanged.
C26_TextFilledWithMode ==
  MissingJustRan =>
    \A j \in 1..NCols(before) :
      before.dtypes[j] = "object" =>
        \A i \in 1..NRows(before) :
          LET was == before.rows[i][j]
              is == cleaned_df.rows[i][j]
          IN /\ ~is.na
             /\ ~was.na => is = was
             /\ was.na =>
                  IF \A k \in 1..NRows(before) : before.rows[k][j].na
                  THEN is = Str("Unknown")
                  ELSE /\ Occurrences(before, j, is.s) > 0
                       /\ \A k \in 1..NRows(before) :
                            ~before.rows[k][j].na =>
                              Occurrences(before, j, before.rows[k][j].s)
                                <= Occurrences(before, j, is.s)
\* a missing text was filled with a value that is not the first of its column
C26_Witness ==
  /\ MissingJustRan
  /\ NRows(before) = 4
  /\ before.rows[1][1] = Str("x")
  /\ before.rows[2][1] = Str("y")
  /\ before.rows[3][1] = Str("y")
  /\ before.rows[4][1] = NaN
  /\ cleaned_df.rows[4][1] = Str("y")

\* C27: with duplicate removal and missing-value handling both enabled the
\* returned table has no two rows that are equal in every column.
C27_NoEqualRowsReturned ==
  Returned /\ cfg.handle_duplicates /\ cfg.handle_missing => Distinct(cleaned_df.rows)

\* C28: serve_dashboard_live restores the working directory on every exit
\* path: when it has returned or raised, the working directory is the one
\* of the call.
C28_WorkingDirectoryRestored ==
  srv.pc \in {"returned", "raised"} => srv.cwd = "original"

Columns(fig) == <<fig.raised, fig.x_col, fig.y_col, fig.size_col>>
\* C29: every specification of the chart list is rendered the same way on
\* the configuration page and on the dashboard view page: the same x, y and
\* size columns.
C29_SameColumnsOnBothPages ==
  HasData =>
    \A i \in 1..Len(SelectedCharts) :
      Columns(RenderConfig(session_state, colors).figs[i])
        = Columns(ViewChart(session_state, SelectedCharts[i]))

\* C30: in every session state a chart list that is not empty implies a
\* stored table, and the kpi of every chart specification names a numeric
\* column of that table.
C30_ChartsHaveNumericKpi ==
  SelectedCharts # <<>> =>
    /\ HasData
    /\ \A i \in 1..Len(SelectedCharts) : IsNumericColumn(StoredFrame, SelectedCharts[i].kpi)

=============================================================================
